---- MODULE Spec2Model ----
(***************************************************************************)
(* Model of the `between` crate (src/src/lib.rs): the Between alphabet     *)
(* (new / default / valid) and the between / after / before construction   *)
(* of a string that sorts strictly between two boundary strings.           *)
(*                                                                         *)
(* A char is its code point (a natural number); a String or a Vec<char>    *)
(* is a sequence of code points.  Rust indexes from 0, TLA+ sequences from *)
(* 1: Rust's v[i] is v[i + 1] here, and chars_lookup keeps Rust's 0-based  *)
(* positions.                                                              *)
(***************************************************************************)
EXTENDS Integers, Sequences, FiniteSets

VARIABLES
    pc,            \* "start" (no instance yet), "ready", "panicked" (new's assert failed), "returned"
    input,         \* the Vec<char> handed to Between::new
    chars,         \* Between.chars
    chars_set,     \* Between.chars_set
    chars_lookup,  \* Between.chars_lookup (char -> 0-based position)
    high,          \* Between.high
    low,           \* Between.low
    op,            \* the last public call: "none", "between", "after", "before"
    this,          \* first argument between() received in that call, as passed
    that,          \* second argument between() received in that call, as passed
    result,        \* what that call returned (or that it panicked)
    keys           \* the caller's ordered collection of generated keys

vars == <<pc, input, chars, chars_set, chars_lookup, high, low, op, this, that, result, keys>>

alphabet == <<input, chars, chars_set, chars_lookup, high, low>>

(***************************************************************************)
(* Bounds of the model.                                                    *)
(***************************************************************************)
\* longest boundary string (in chars) handed to between / after / before
MaxLen == 3
\* longest boundary string (in chars) that holds a character outside the alphabet
MaxBadLen == 2
\* most trailing low symbols appended when comparing padded and unpadded calls
MaxPad == 2
\* most keys the caller's ordered collection holds
MaxKeys == 5

(***************************************************************************)
(* Strings: UTF-8 encoding, byte length, comparison.                       *)
(***************************************************************************)
\* the UTF-8 encoding of one code point
encode_utf8(c) ==
    IF c < 128 THEN <<c>>
    ELSE IF c < 2048 THEN <<192 + (c \div 64), 128 + (c % 64)>>
    ELSE IF c < 65536 THEN <<224 + (c \div 4096), 128 + ((c \div 64) % 64), 128 + (c % 64)>>
    ELSE <<240 + (c \div 262144), 128 + ((c \div 4096) % 64),
           128 + ((c \div 64) % 64), 128 + (c % 64)>>

RECURSIVE as_bytes(_)
\* the bytes a String holds: the encodings of its chars, in order
as_bytes(s) ==
    IF s = <<>> THEN <<>>
    ELSE IF Len(s) = 1 THEN encode_utf8(s[1])
    ELSE LET half == Len(s) \div 2
         IN as_bytes(SubSeq(s, 1, half)) \o as_bytes(SubSeq(s, half + 1, Len(s)))

\* len with the bug of counting two bytes for every character (UTF-16 units)
len_two_bytes_each(s) == 2 * Len(s)

\* String::len: the length in bytes
len(s) == Len(as_bytes(s))

\* Ord for slices (of bytes, of chars): decided by the first differing element,
\* and a proper prefix is Less
slice_cmp(a, b) ==
    LET n == IF Len(a) < Len(b) THEN Len(a) ELSE Len(b)
        differ == {i \in 1..n : a[i] # b[i]}
    IN IF differ = {}
       THEN IF Len(a) < Len(b) THEN "Less"
            ELSE IF Len(a) > Len(b) THEN "Greater"
            ELSE "Equal"
       ELSE LET first == CHOOSE i \in differ : \A j \in differ : i <= j
            IN IF a[first] < b[first] THEN "Less" ELSE "Greater"

\* String::cmp compares the encoded bytes
cmp(s, t) == slice_cmp(as_bytes(s), as_bytes(t))

\* Vec<char> < Vec<char> compares the chars
vec_lt(a, b) == slice_cmp(a, b) = "Less"

\* trim_end_matches with the bug of stripping one trailing c only
trim_end_once(s, c) ==
    IF s = <<>> \/ s[Len(s)] # c THEN s ELSE SubSeq(s, 1, Len(s) - 1)

RECURSIVE trim_end_matches(_, _)
\* str::trim_end_matches(char): drop every trailing occurrence of c
trim_end_matches(s, c) ==
    IF s = <<>> \/ s[Len(s)] # c THEN s
    ELSE trim_end_matches(SubSeq(s, 1, Len(s) - 1), c)

\* slice::get(index).unwrap_or(default), index counted from 0
get_or(v, index, default) == IF index < Len(v) THEN v[index + 1] ELSE default

max(a, b) == IF a >= b THEN a ELSE b

(***************************************************************************)
(* Between::new                                                            *)
(***************************************************************************)
\* unique with the bug of keeping repeated elements
unique_keeps_all(s) == s

\* Itertools::unique: keep the first occurrence of every element, in order
unique(s) ==
    LET firsts == {i \in 1..Len(s) : \A j \in 1..(i - 1) : s[j] # s[i]}
    IN [k \in 1..Cardinality(firsts) |->
           s[CHOOSE i \in firsts : Cardinality({j \in firsts : j <= i}) = k]]

\* Itertools::sorted_unstable: the same elements, ascending by code point
sorted_unstable(s) ==
    LET below(c) == Cardinality({i \in 1..Len(s) : s[i] < c})
        upto(c) == Cardinality({i \in 1..Len(s) : s[i] <= c})
    IN [k \in 1..Len(s) |->
           CHOOSE c \in {s[i] : i \in 1..Len(s)} : below(c) < k /\ k <= upto(c)]

\* the fields Between::new builds, or the failed assertion
new(in) ==
    LET cs == sorted_unstable(unique(in))
    IN IF ~(Len(cs) >= 2)
       THEN [panicked |-> TRUE, chars |-> <<>>, chars_set |-> {},
             chars_lookup |-> <<>>, high |-> 0, low |-> 0]
       ELSE [panicked |-> FALSE,
             chars |-> cs,
             chars_set |-> {cs[i] : i \in 1..Len(cs)},
             chars_lookup |-> [c \in {cs[i] : i \in 1..Len(cs)} |->
                                  (CHOOSE i \in 1..Len(cs) : cs[i] = c) - 1],
             high |-> cs[Len(cs)],
             low |-> cs[1]]

\* the default set with the bug of leaving '_' out
default_chars_without_underscore ==
    <<33>> \o [i \in 1..10 |-> 47 + i] \o [i \in 1..26 |-> 64 + i]
           \o [i \in 1..26 |-> 96 + i] \o <<126>>

\* "!0123456789ABCDEFGHIJKLMNOPQRSTUVWXYZ_abcdefghijklmnopqrstuvwxyz~" as code points
default_chars ==
    <<33>> \o [i \in 1..10 |-> 47 + i] \o [i \in 1..26 |-> 64 + i]
           \o <<95>> \o [i \in 1..26 |-> 96 + i] \o <<126>>

(***************************************************************************)
(* Between::valid                                                          *)
(***************************************************************************)
valid(string) ==
    IF string = <<>> THEN FALSE
    ELSE \A i \in 1..Len(string) : string[i] \in chars_set

(***************************************************************************)
(* Between::between                                                        *)
(***************************************************************************)
None(i) == [kind |-> "None", val |-> <<>>, index |-> i]
Some(s, i) == [kind |-> "Some", val |-> s, index |-> i]
Panic(i) == [kind |-> "Panic", val |-> <<>>, index |-> i]

\* midpoint with the bug of integer division, which rounds halves down
midpoint_floor(this_char_position, that_char_position) ==
    (this_char_position + that_char_position) \div 2

\* ((a as f64 + b as f64) / 2.0).round() as usize: f64::round rounds halves away from zero
midpoint(this_char_position, that_char_position) ==
    (this_char_position + that_char_position + 1) \div 2

\* char_position with the bug of leaving out the `index >= guard_max_len` branch
char_position_by_gap_only(this_char_position, that_char_position, index, guard_max_len) ==
    IF (this_char_position + 1) < that_char_position
    THEN midpoint(this_char_position, that_char_position)
    ELSE this_char_position

\* the position of the candidate character
char_position(this_char_position, that_char_position, index, guard_max_len) ==
    IF (this_char_position + 1) < that_char_position \/ index >= guard_max_len
    THEN midpoint(this_char_position, that_char_position)
    ELSE this_char_position

\* accept with the bug of `this_chars <= between_string`
accept_not_strict(this_chars, that_chars, between_string, char_candidate) ==
    /\ slice_cmp(this_chars, between_string) # "Greater"
    /\ vec_lt(between_string, that_chars)
    /\ char_candidate # low

\* accept with the bug of leaving out `char_candidate != self.low`
accept_trailing_low(this_chars, that_chars, between_string, char_candidate) ==
    /\ vec_lt(this_chars, between_string)
    /\ vec_lt(between_string, that_chars)

\* accept with the bug of comparing lengths instead of contents against this_chars
accept_by_length(this_chars, that_chars, between_string, char_candidate) ==
    /\ Len(this_chars) < Len(between_string)
    /\ vec_lt(between_string, that_chars)
    /\ char_candidate # low

\* the test that ends the loop with Some(between_string)
accept(this_chars, that_chars, between_string, char_candidate) ==
    /\ vec_lt(this_chars, between_string)
    /\ vec_lt(between_string, that_chars)
    /\ char_candidate # low

\* The while loop.  The candidate pushed in the iteration at `index` depends
\* only on index and the two inputs, so between_string after that push is the
\* sequence of the candidates of iterations 0..index.  The loop ends at the
\* first index (<= guard) where an unwrap() or the indexing of chars panics or
\* where the return condition holds; if there is none it falls through to None.
between_loop(this_chars, that_chars, guard, guard_max_len) ==
    LET this_char(index) == get_or(this_chars, index, low)
        that_char(index) == get_or(that_chars, index, high)
        position(index) ==
            char_position(chars_lookup[this_char(index)], chars_lookup[that_char(index)],
                          index, guard_max_len)
        panics(index) ==
            \/ this_char(index) \notin DOMAIN chars_lookup
            \/ that_char(index) \notin DOMAIN chars_lookup
            \/ ~(position(index) < Len(chars))
        panicking == {index \in 0..guard : panics(index)}
        \* iterations the loop can reach without panicking before
        sound == IF panicking = {} THEN guard
                 ELSE (CHOOSE i \in panicking : \A j \in panicking : i <= j) - 1
        char_candidate(index) == chars[position(index) + 1]
        between_string(index) == [j \in 1..(index + 1) |-> char_candidate(j - 1)]
        returning == {index \in 0..sound :
                         accept(this_chars, that_chars, between_string(index),
                                char_candidate(index))}
    IN IF returning # {}
       THEN LET index == CHOOSE i \in returning : \A j \in returning : i <= j
            IN Some(between_string(index), index)
       ELSE IF panicking # {} THEN Panic(sound + 1)
       ELSE None(guard + 1)

\* rejects with the bug of leaving out `!self.valid(&that)`
rejects_without_valid_that(this_trimmed, that_trimmed) ==
    \/ cmp(this_trimmed, that_trimmed) # "Less"
    \/ (this_trimmed # <<>> /\ ~valid(this_trimmed))

\* the check that returns None before the loop
rejects(this_trimmed, that_trimmed) ==
    \/ cmp(this_trimmed, that_trimmed) # "Less"
    \/ (this_trimmed # <<>> /\ ~valid(this_trimmed))
    \/ ~valid(that_trimmed)

between(this_arg, that_arg) ==
    LET this_trimmed == trim_end_matches(this_arg, low)
        that_trimmed == trim_end_matches(that_arg, low)
    IN IF rejects(this_trimmed, that_trimmed) THEN None(0)
       ELSE between_loop(this_trimmed, that_trimmed,
                         len(this_trimmed) + len(that_trimmed),
                         max(len(this_trimmed), len(that_trimmed)))

\* after_args with the bug of swapping the two arguments
after_args_swapped(before_string) == <<<<high>>, before_string>>

\* after passes self.high as `that`, before passes self.low as `this`
after_args(before_string) == <<before_string, <<high>>>>
before_args(after_string) == <<<<low>>, after_string>>

after(before_string) ==
    between(after_args(before_string)[1], after_args(before_string)[2])

before(after_string) ==
    between(before_args(after_string)[1], before_args(after_string)[2])

(***************************************************************************)
(* The inputs the model enumerates.                                        *)
(***************************************************************************)
\* character collections handed to Between::new
AlphabetInputs ==
    { <<>>, <<97>>, <<120, 120>>,          \* fewer than two distinct characters
      <<98, 97>>,                          \* 'b', 'a'
      <<99, 98, 97, 99>>,                  \* 'c', 'b', 'a', 'c'
      <<946, 945>> }                       \* 'β', 'α' (two bytes each)

\* characters outside every alphabet above: ' ' sorts below all their symbols
OutsideChars == {32}

\* symbols the boundary strings are made of: the two lowest and the highest
InputChars == {chars[1], chars[2], high}

RECURSIVE StringsUpTo(_, _)
\* every string over `cset` of at most n characters
StringsUpTo(cset, n) ==
    IF n = 0 THEN {<<>>}
    ELSE LET shorter == StringsUpTo(cset, n - 1)
         IN shorter \cup {Append(s, c) : s \in {t \in shorter : Len(t) = n - 1}, c \in cset}

\* boundary strings: over the alphabet up to MaxLen chars, and with characters
\* outside the alphabet up to MaxBadLen chars
InputStrings ==
    StringsUpTo(InputChars, MaxLen) \cup StringsUpTo(InputChars \cup OutsideChars, MaxBadLen)

(***************************************************************************)
(* The state machine.                                                      *)
(***************************************************************************)
Init ==
    /\ pc = "start"
    /\ input = <<>>
    /\ chars = <<>>
    /\ chars_set = {}
    /\ chars_lookup = <<>>
    /\ high = 0
    /\ low = 0
    /\ op = "none"
    /\ this = <<>>
    /\ that = <<>>
    /\ result = None(0)
    /\ keys = <<>>

\* Between::new(in)
Construct(in) ==
    /\ pc = "start"
    /\ input' = in
    /\ pc' = IF new(in).panicked THEN "panicked" ELSE "ready"
    /\ chars' = new(in).chars
    /\ chars_set' = new(in).chars_set
    /\ chars_lookup' = new(in).chars_lookup
    /\ high' = new(in).high
    /\ low' = new(in).low
    /\ UNCHANGED <<op, this, that, result, keys>>

New == \E in \in AlphabetInputs : Construct(in)

\* Between::init() / Between::default()
Default == Construct(default_chars)

\* a call of between(a, b)
CallBetween ==
    /\ pc = "ready"
    /\ \E a \in InputStrings, b \in InputStrings :
          /\ op' = "between"
          /\ this' = a
          /\ that' = b
          /\ result' = between(a, b)
    /\ pc' = "returned"
    /\ UNCHANGED <<alphabet, keys>>

\* a call of after(s)
CallAfter ==
    /\ pc = "ready"
    /\ \E s \in InputStrings :
          /\ op' = "after"
          /\ this' = after_args(s)[1]
          /\ that' = after_args(s)[2]
          /\ result' = after(s)
    /\ pc' = "returned"
    /\ UNCHANGED <<alphabet, keys>>

\* a call of before(s)
CallBefore ==
    /\ pc = "ready"
    /\ \E s \in InputStrings :
          /\ op' = "before"
          /\ this' = before_args(s)[1]
          /\ that' = before_args(s)[2]
          /\ result' = before(s)
    /\ pc' = "returned"
    /\ UNCHANGED <<alphabet, keys>>

Next == New \/ Default \/ CallBetween \/ CallAfter \/ CallBefore

Spec == Init /\ [][Next]_vars

(***************************************************************************)
(* A caller that keeps an ordered collection of keys and asks for a new    *)
(* key at one of its positions: after("") for the first key, after(last),  *)
(* before(first), between(two neighbours).  A key is stored only when the  *)
(* call returns Some.                                                      *)
(***************************************************************************)
\* v with x inserted so that it becomes element number p
InsertAt(v, p, x) == SubSeq(v, 1, p - 1) \o <<x>> \o SubSeq(v, p, Len(v))

\* the call between(a, b) made through `name`, and the key stored at position p
Insert(name, a, b, r, p) ==
    /\ op' = name
    /\ this' = a
    /\ that' = b
    /\ result' = r
    /\ keys' = IF r.kind = "Some" THEN InsertAt(keys, p, r.val) ELSE keys
    /\ UNCHANGED <<pc, alphabet>>

InsertFirst ==
    /\ pc = "ready"
    /\ keys = <<>>
    /\ Insert("after", after_args(<<>>)[1], after_args(<<>>)[2], after(<<>>), 1)

InsertAfterLast ==
    /\ pc = "ready"
    /\ keys # <<>>
    /\ Len(keys) < MaxKeys
    /\ LET k == keys[Len(keys)]
       IN Insert("after", after_args(k)[1], after_args(k)[2], after(k), Len(keys) + 1)

InsertBeforeFirst ==
    /\ pc = "ready"
    /\ keys # <<>>
    /\ Len(keys) < MaxKeys
    /\ LET k == keys[1]
       IN Insert("before", before_args(k)[1], before_args(k)[2], before(k), 1)

InsertBetween ==
    /\ pc = "ready"
    /\ Len(keys) < MaxKeys
    /\ \E i \in 1..(Len(keys) - 1) :
          Insert("between", keys[i], keys[i + 1], between(keys[i], keys[i + 1]), i + 1)

InsertNext ==
    New \/ Default \/ InsertFirst \/ InsertAfterLast \/ InsertBeforeFirst \/ InsertBetween

InsertSpec == Init /\ [][InsertNext]_vars

(***************************************************************************)
(* Vocabulary of the properties, stated independently of the operators     *)
(* above.                                                                  *)
(***************************************************************************)
\* a < b in lexicographic order of code points
LexLess(a, b) ==
    \E k \in 0..(IF Len(a) < Len(b) THEN Len(a) ELSE Len(b)) :
        /\ \A i \in 1..k : a[i] = b[i]
        /\ \/ (k = Len(a) /\ k < Len(b))
           \/ (k < Len(a) /\ k < Len(b) /\ a[k + 1] < b[k + 1])

\* the symbols of the alphabet
Symbols == {chars[i] : i \in 1..Len(chars)}

\* every character of s is a symbol
OverAlphabet(s) == \A i \in 1..Len(s) : s[i] \in Symbols

\* s without its trailing low symbols
Trimmed(s) ==
    LET keep == {i \in 1..Len(s) : s[i] # low}
    IN SubSeq(s, 1, IF keep = {} THEN 0 ELSE CHOOSE i \in keep : \A j \in keep : j <= i)

\* n copies of c
Repeat(c, n) == [i \in 1..n |-> c]

\* a public call has returned (or panicked)
Called == op # "none"

Returned(s) == Called /\ result.kind = "Some" /\ result.val = s

(***************************************************************************)
(* C1  Soundness of between: whenever between(this, that) returns Some(s), *)
(* this < s < that in code-point lexicographic order for the arguments as  *)
(* passed (untrimmed), and every character of s is a symbol of the         *)
(* alphabet.                                                               *)
(***************************************************************************)
C1_Soundness ==
    (Called /\ result.kind = "Some") =>
        /\ LexLess(this, result.val)
        /\ LexLess(result.val, that)
        /\ OverAlphabet(result.val)

\* between returned a string although both arguments carried trailing low symbols
C1_Witness ==
    /\ op = "between"
    /\ result.kind = "Some"
    /\ this # <<>> /\ this[Len(this)] = low /\ Trimmed(this) # <<>>
    /\ that[Len(that)] = low

(***************************************************************************)
(* C2  Rejection as a value: between(this, that) returns None, and does    *)
(* not panic, whenever this >= that, or that is empty or holds a character *)
(* outside the alphabet, or this is non-empty and holds a character        *)
(* outside the alphabet -- for the arguments as passed, before trimming.   *)
(***************************************************************************)
C2_Rejection ==
    (Called /\ (\/ ~LexLess(this, that)
                \/ that = <<>>
                \/ ~OverAlphabet(that)
                \/ (this # <<>> /\ ~OverAlphabet(this))))
        => result.kind = "None"

\* a rejected call whose arguments are out of order as passed but in order once trimmed
C2_Witness ==
    /\ op = "between"
    /\ ~LexLess(this, that)
    /\ LexLess(Trimmed(this), Trimmed(that))
    /\ result.kind = "None"

(***************************************************************************)
(* C5  Boundary results: after(s) is None for every non-empty s made only  *)
(* of the high symbol and for every valid s whose first character is high; *)
(* before(s) is None for the empty string and for every s made only of the *)
(* low symbol.                                                             *)
(***************************************************************************)
C5_Boundaries ==
    /\ (op = "after" /\ this # <<>> /\ this[1] = high /\ OverAlphabet(this))
          => result.kind = "None"
    /\ (op = "before" /\ \A i \in 1..Len(that) : that[i] = low)
          => result.kind = "None"

\* after() was called on high followed by a lower symbol
C5_Witness ==
    /\ op = "after"
    /\ Len(this) >= 2 /\ this[1] = high /\ this[2] # high /\ OverAlphabet(this)
    /\ result.kind = "None"

(***************************************************************************)
(* C6  Alphabet construction: Between::new panics exactly when the input   *)
(* holds fewer than 2 distinct characters; otherwise chars is strictly     *)
(* ascending by code point, holds exactly the distinct input characters,   *)
(* chars_lookup maps chars[i] to i (0-based, a bijection onto              *)
(* 0..len-1), chars_set is the set of symbols, low is the first symbol and *)
(* high the last.                                                          *)
(***************************************************************************)
C6_Construction ==
    LET distinct == {input[i] : i \in 1..Len(input)}
    IN pc # "start" =>
         /\ (pc = "panicked") <=> (Cardinality(distinct) < 2)
         /\ pc # "panicked" =>
              /\ \A i \in 1..(Len(chars) - 1) : chars[i] < chars[i + 1]
              /\ Symbols = distinct
              /\ Len(chars) = Cardinality(distinct)
              /\ DOMAIN chars_lookup = Symbols
              /\ \A i \in 1..Len(chars) : chars_lookup[chars[i]] = i - 1
              /\ {chars_lookup[c] : c \in Symbols} = 0..(Len(chars) - 1)
              /\ chars_set = Symbols
              /\ low = chars[1]
              /\ high = chars[Len(chars)]

\* an instance built from an unsorted input with a repeated character
C6_Witness ==
    /\ pc = "ready"
    /\ Len(input) > Len(chars)
    /\ \E i \in 1..(Len(input) - 1) : input[i] > input[i + 1]

(***************************************************************************)
(* C7  Default alphabet.  As claimed: Between::init() / default() builds   *)
(* exactly 66 symbols: '!', 0-9, A-Z, '_', a-z, '~', ascending, low '!',   *)
(* high '~'.  The listed characters are 65, and so is the alphabet: the    *)
(* amended statement replaces the count 66 by 65.                          *)
(***************************************************************************)
DefaultSymbols == {33} \cup (48..57) \cup (65..90) \cup {95} \cup (97..122) \cup {126}

\* the instance was built by Between::init() / default()
FromDefault == pc # "start" /\ input = default_chars

C7_DefaultAlphabet65 ==
    FromDefault =>
        /\ pc # "panicked"
        /\ Len(chars) = 64 + 1
        /\ Symbols = DefaultSymbols
        /\ \A i \in 1..(Len(chars) - 1) : chars[i] < chars[i + 1]
        /\ low = 33
        /\ high = 126

\* the claim as written, with 66 symbols
C7_DefaultAlphabet66 ==
    FromDefault =>
        /\ pc # "panicked"
        /\ Len(chars) = 65 + 1
        /\ Symbols = DefaultSymbols
        /\ \A i \in 1..(Len(chars) - 1) : chars[i] < chars[i + 1]
        /\ low = 33
        /\ high = 126

\* the default instance exists and has answered a call
C7_Witness == FromDefault /\ pc = "returned" /\ op = "after" /\ this = <<>> /\ result.kind = "Some"

(***************************************************************************)
(* C10  Every string returned by between, after or before is non-empty,    *)
(* passes valid(), and does not end in the low symbol, so trimming leaves  *)
(* it unchanged when it is passed back as a boundary.                      *)
(***************************************************************************)
C10_ReturnedKeyShape ==
    (Called /\ result.kind = "Some") =>
        /\ result.val # <<>>
        /\ valid(result.val)
        /\ result.val[Len(result.val)] # low
        /\ trim_end_matches(result.val, low) = result.val

\* before() returned a key of several characters
C10_Witness == op = "before" /\ result.kind = "Some" /\ Len(result.val) >= 2

(***************************************************************************)
(* C8  Midpoint rule.  Let this' and that' be the trimmed arguments of a   *)
(* call that passes validation, d the first position where this' padded    *)
(* with low and that' padded with high differ, and a, b the ranks there.   *)
(* Then a < b, and if b - a > 1 the call returns the first d characters of *)
(* padded this' followed by the symbol of rank round((a + b) / 2), halves  *)
(* rounded up, a rank strictly between a and b.                            *)
(***************************************************************************)
PassesValidation ==
    /\ Called
    /\ LexLess(Trimmed(this), Trimmed(that))
    /\ OverAlphabet(Trimmed(this))
    /\ Trimmed(that) # <<>>
    /\ OverAlphabet(Trimmed(that))

PadThis(i) == IF i <= Len(Trimmed(this)) THEN Trimmed(this)[i] ELSE low
PadThat(i) == IF i <= Len(Trimmed(that)) THEN Trimmed(that)[i] ELSE high

\* first position (from 1) where the padded arguments differ
FirstDiff ==
    LET n == max(Len(Trimmed(this)), Len(Trimmed(that))) + 1
    IN CHOOSE i \in 1..n :
          /\ PadThis(i) # PadThat(i)
          /\ \A j \in 1..(i - 1) : PadThis(j) = PadThat(j)

RankOf(c) == CHOOSE r \in 0..(Len(chars) - 1) : chars[r + 1] = c

\* (a + b) / 2 rounded to the nearest integer, halves up
RoundHalfUp(a, b) == CHOOSE r \in 0..(a + b) : 2 * r = a + b \/ 2 * r = a + b + 1

C8_MidpointRule ==
    PassesValidation =>
        LET a == RankOf(PadThis(FirstDiff))
            b == RankOf(PadThat(FirstDiff))
            m == RoundHalfUp(a, b)
        IN /\ a < b
           /\ b - a > 1 =>
                /\ a < m /\ m < b
                /\ result.kind = "Some"
                /\ result.val = [i \in 1..FirstDiff |->
                                    IF i < FirstDiff THEN PadThis(i) ELSE chars[m + 1]]

\* a call decided at its second position or later by a midpoint that is a half
C8_Witness ==
    /\ op = "between"
    /\ PassesValidation
    /\ FirstDiff >= 2
    /\ RankOf(PadThat(FirstDiff)) - RankOf(PadThis(FirstDiff)) > 1
    /\ (RankOf(PadThat(FirstDiff)) + RankOf(PadThis(FirstDiff))) % 2 = 1
    /\ result.kind = "Some"

(***************************************************************************)
(* C9  Trailing-low invariance: appending any number of low symbols to     *)
(* either argument does not change what between returns; likewise for the  *)
(* argument of after and of before; and a lower bound made only of low     *)
(* symbols behaves as the empty lower bound.                               *)
(***************************************************************************)
C9_TrailingLowInvariance ==
    Called =>
        /\ \A j \in 0..MaxPad, k \in 0..MaxPad :
              between(this \o Repeat(low, j), that \o Repeat(low, k)) = result
        /\ op = "after" => \A j \in 0..MaxPad : after(this \o Repeat(low, j)) = result
        /\ op = "before" => \A k \in 0..MaxPad : before(that \o Repeat(low, k)) = result
        /\ (\A i \in 1..Len(this) : this[i] = low) => between(<<>>, that) = result

\* a successful call whose upper bound ends in low symbols after a non-low one
C9_Witness ==
    /\ op = "between"
    /\ result.kind = "Some"
    /\ Len(that) >= 2
    /\ that[Len(that)] = low
    /\ this # <<>>

(***************************************************************************)
(* C4  Shortest witness.  As claimed: whenever between(this, that) returns *)
(* Some(s), no string over the alphabet that does not end in low, has      *)
(* fewer characters than s, and lies strictly between this and that        *)
(* exists.  The code returns the first string of its greedy construction   *)
(* that qualifies, which is not always the globally shortest: the amended  *)
(* statement is that no proper prefix of s is a string strictly between    *)
(* this and that that does not end in low.                                 *)
(***************************************************************************)
\* t is a string over the alphabet, not ending in low, strictly between this and that
Qualifies(t) ==
    /\ t # <<>>
    /\ OverAlphabet(t)
    /\ t[Len(t)] # low
    /\ LexLess(this, t)
    /\ LexLess(t, that)

\* the claim as written
C4_GloballyShortest ==
    (Called /\ result.kind = "Some") =>
        ~ \E t \in StringsUpTo(Symbols, Len(result.val) - 1) : Qualifies(t)

C4_ShortestGreedyPrefix ==
    (Called /\ result.kind = "Some") =>
        /\ Qualifies(result.val)
        /\ \A n \in 1..(Len(result.val) - 1) : ~Qualifies(SubSeq(result.val, 1, n))

\* a returned string with a proper prefix strictly between the bounds (ending in low)
C4_Witness ==
    /\ op = "between"
    /\ result.kind = "Some"
    /\ \E n \in 1..(Len(result.val) - 1) :
          /\ LexLess(this, SubSeq(result.val, 1, n))
          /\ LexLess(SubSeq(result.val, 1, n), that)

(***************************************************************************)
(* C3  Insertion never gets stuck: from an empty collection, every         *)
(* insertion -- after("") first, then after(largest), before(smallest) or  *)
(* between(two adjacent keys) -- returns Some(key); the key is new, it     *)
(* lands strictly at the requested position, the collection stays strictly *)
(* ascending and no stored key changes.                                    *)
(***************************************************************************)
StrictlyAscending(v) == \A i \in 1..(Len(v) - 1) : LexLess(v[i], v[i + 1])

\* what one insertion step must do
InsertedInPlace ==
    (pc = "ready" /\ pc' = "ready") =>
        /\ result'.kind = "Some"
        /\ \A i \in 1..Len(keys) : keys[i] # result'.val
        /\ Len(keys') = Len(keys) + 1
        /\ \E p \in 1..Len(keys') :
              /\ keys'[p] = result'.val
              /\ \A i \in 1..(p - 1) : keys'[i] = keys[i]
              /\ \A i \in p..Len(keys) : keys'[i + 1] = keys[i]
              /\ op' = "after" => p = Len(keys')
              /\ op' = "before" => p = 1
              /\ op' = "between" =>
                    /\ 1 < p /\ p < Len(keys')
                    /\ keys'[p - 1] = this'
                    /\ keys'[p + 1] = that'
        /\ StrictlyAscending(keys')

C3_InsertionNeverStuck == [][InsertedInPlace]_vars

\* a full collection whose last key was placed between two neighbours
C3_Witness ==
    /\ Len(keys) = MaxKeys
    /\ op = "between"
    /\ result.kind = "Some"
    /\ StrictlyAscending(keys)

(***************************************************************************)
(* C11  Code-point-wise behaviour: the result of between depends only on   *)
(* the ranks of the input characters and on the size of the alphabet, not  *)
(* on the number of bytes a character occupies.  Relabel every symbol of   *)
(* the alphabet, in order, to a one-byte character (rank r to code point   *)
(* 33 + r) and run Between::between over the relabelled alphabet on the    *)
(* relabelled arguments: the call returns Some exactly when that run does, *)
(* and its string relabelled is the string of that run.                    *)
(***************************************************************************)
\* the alphabet of the same size whose symbols are '!', '"', '#', ...
Twin == [i \in 1..Len(chars) |-> 32 + i]

\* s with every symbol replaced by the symbol of the same rank in Twin
Relabel(s) == [i \in 1..Len(s) |-> IF s[i] \in Symbols THEN Twin[RankOf(s[i]) + 1] ELSE s[i]]

\* Between::between of a Between whose chars are A (sorted, distinct, >= 2)
BetweenOver(A, this_arg, that_arg) ==
    LET A_low == A[1]
        A_high == A[Len(A)]
        A_set == {A[i] : i \in 1..Len(A)}
        A_lookup(c) == CHOOSE r \in 0..(Len(A) - 1) : A[r + 1] = c
        A_valid(string) == string # <<>> /\ \A i \in 1..Len(string) : string[i] \in A_set
        this_chars == trim_end_matches(this_arg, A_low)
        that_chars == trim_end_matches(that_arg, A_low)
        guard == len(this_chars) + len(that_chars)
        guard_max_len == max(len(this_chars), len(that_chars))
        char_candidate(index) ==
            A[char_position(A_lookup(get_or(this_chars, index, A_low)),
                            A_lookup(get_or(that_chars, index, A_high)),
                            index, guard_max_len) + 1]
        between_string(index) == [j \in 1..(index + 1) |-> char_candidate(j - 1)]
        returning == {index \in 0..guard :
                         /\ vec_lt(this_chars, between_string(index))
                         /\ vec_lt(between_string(index), that_chars)
                         /\ char_candidate(index) # A_low}
    IN IF \/ cmp(this_chars, that_chars) # "Less"
          \/ (this_chars # <<>> /\ ~A_valid(this_chars))
          \/ ~A_valid(that_chars)
       THEN None(0)
       ELSE IF returning # {}
       THEN LET index == CHOOSE i \in returning : \A j \in returning : i <= j
            IN Some(between_string(index), index)
       ELSE None(guard + 1)

C11_CodePointWise ==
    Called =>
        LET twin == BetweenOver(Twin, Relabel(this), Relabel(that))
        IN /\ result.kind = twin.kind
           /\ Relabel(result.val) = twin.val

\* BetweenOver is Between::between: over the alphabet of the state it returns
\* what the call returned
BetweenOverIsBetween == Called => BetweenOver(chars, this, that) = result

\* over one-byte alphabets the relabelling does commute with between
SingleByteRelabelling == (Called /\ \A c \in Symbols : c < 128) => C11_CodePointWise

(***************************************************************************)
(* C12  Termination bound.  Every call of between returns (Some or None,   *)
(* no panic), and the loop performs at most len(this') + len(that')        *)
(* iterations, len being String::len of the trimmed arguments; a returned  *)
(* string has at most that many characters.                                *)
(***************************************************************************)
\* the length of the UTF-8 encoding of s
ByteLen(s) ==
    Len(s) + Cardinality({i \in 1..Len(s) : s[i] >= 128})
           + Cardinality({i \in 1..Len(s) : s[i] >= 2048})
           + Cardinality({i \in 1..Len(s) : s[i] >= 65536})

\* the iterations of the loop the call has entered
Iterations == IF result.kind = "None" THEN result.index ELSE result.index + 1

SumOfLengths == ByteLen(Trimmed(this)) + ByteLen(Trimmed(that))

SomeIffPassesValidation ==
    Called =>
        /\ result.kind \in {"Some", "None"}
        /\ result.kind = "Some" <=> PassesValidation
        /\ result.kind = "None" => result.index = 0
        /\ (op = "after" /\ (this = <<>> \/ (OverAlphabet(this) /\ this[1] # high)))
              => result.kind = "Some"
        /\ (op = "before" /\ that # <<>> /\ OverAlphabet(that)
                          /\ \E i \in 1..Len(that) : that[i] # low)
              => result.kind = "Some"

\* the length in characters of the longer trimmed argument
LongerLength == max(Len(Trimmed(this)), Len(Trimmed(that)))

C13_Completeness ==
    /\ SomeIffPassesValidation
    /\ (Called /\ result.kind = "Some") => result.index <= LongerLength

\* what holds of the position: it is within the longer length in bytes
PositionWithinLongerByteLength ==
    (Called /\ result.kind = "Some") =>
        result.index <= max(ByteLen(Trimmed(this)), ByteLen(Trimmed(that)))

\* over one-byte alphabets the claim holds as stated
SingleByteCompleteness == (\A c \in Symbols : c < 128) => C13_Completeness
====
